---- MODULE Spec2Model ----
(***************************************************************************)
(* The pomodoro timer: the timer core (timer.js), the plan / preferences   *)
(* store (state.js), the handlers of the display layer that drive them     *)
(* (ui.js), and of sound.js the calls that can end a handler early, the    *)
(* relax ambient loop and the countdown clip.                              *)
(*                                                                         *)
(* JavaScript numbers that are not numbers are kept apart from the         *)
(* naturals the timer counts with: `undefined` is the value of a plan      *)
(* field the store does not hold, NaN the result of arithmetic on it.      *)
(* Every arithmetic step and comparison of the code goes through the Js... *)
(* operators below, which treat them as JavaScript does.                   *)
(***************************************************************************)
EXTENDS Integers, FiniteSets, Sequences, TLC

VARIABLES
  timerState,     \* timer.js: the timerState object
  tickerId,       \* timer.js: the id of the armed interval, or Null
  liveIntervals,  \* the browser's interval timers that call handleTick
  plan,           \* state.js: plan
  preferences,    \* state.js: preferences
  deferredSoundsPrimed,  \* sound.js: deferredSoundsPrimed
  relaxAmbientPlaying,   \* sound.js: audioBank.relaxAmbient is playing
  countdownStarted,      \* sound.js: audioBank.countdown was played and not stopped since
  run,            \* history: the ticks of the run begun by the last start from Ready
  lastOp,         \* history: the last operation of the timer module
  lastFrom,       \* history: status and phase before that operation
  emitted,        \* history: the timer:update events that operation dispatched
  cued,           \* history: the playCountdownSound calls of that operation
  cuesInPhase,    \* history: the playCountdownSound calls since the phase began
  threw,          \* history: that operation ended in an exception
  completed,      \* history: the phases ended since the last initializeFromPlan
  pickerValues,   \* ui.js: pickerValues
  inputValue,     \* ui.js: input.value of each picker's input element
  pickerEvents,   \* history: the picker events handled so far
  twin            \* a second run of the timer, for comparison with the first

vars == <<timerState, tickerId, liveIntervals, plan, preferences,
          deferredSoundsPrimed, relaxAmbientPlaying, countdownStarted, run,
          lastOp, lastFrom, emitted, cued, cuesInPhase, threw, completed,
          pickerValues, inputValue, pickerEvents, twin>>

pickerVars == <<pickerValues, inputValue, pickerEvents>>

---------------------------------------------------------------------------
(* Values *)

NaN == -1
undefined == -2
Null == 0

SecondsPerMinute == 60

IsNum(x) == x >= 0

JsMul(a, b) == IF IsNum(a) /\ IsNum(b) THEN a * b ELSE NaN
JsAdd(a, b) == IF IsNum(a) /\ IsNum(b) THEN a + b ELSE NaN
JsSub(a, b) == IF IsNum(a) /\ IsNum(b) THEN a - b ELSE NaN
\* a <= b, a > b: false when either side is NaN
JsLe(a, b) == IsNum(a) /\ IsNum(b) /\ a <= b
JsGt(a, b) == IsNum(a) /\ IsNum(b) /\ a > b
\* a === b on numbers: NaN equals nothing
JsEq(a, b) == IsNum(a) /\ IsNum(b) /\ a = b
\* Math.max(a, b): NaN when either is
JsMax(a, b) == IF IsNum(a) /\ IsNum(b) THEN (IF a >= b THEN a ELSE b) ELSE NaN
JsMin(a, b) == IF IsNum(a) /\ IsNum(b) THEN (IF a <= b THEN a ELSE b) ELSE NaN
\* a || b
JsOr(a, b) == IF IsNum(a) /\ a # 0 THEN a ELSE b
Truthy(a) == IsNum(a) /\ a # 0

---------------------------------------------------------------------------
(* Bounds of the model: the plans the Apply button and the store are fed.  *)

MaxFocus == 5
MaxRelax == 1
MaxCycles == 2

PickerFocusMin == 5
PickerRelaxMin == 1
PickerCyclesMin == 1

FocusChoices == PickerFocusMin .. MaxFocus
RelaxChoices == {undefined} \cup (PickerRelaxMin .. MaxRelax)
CyclesChoices == PickerCyclesMin .. MaxCycles

---------------------------------------------------------------------------
(* state.js *)

DEFAULT_PLAN ==
  [focusMinutes |-> 25, breakMinutes |-> 5, longBreakMinutes |-> 15,
   cycles |-> 4, relaxMinutes |-> undefined]

DEFAULT_PREFERENCES == [autoCycle |-> TRUE, sound |-> TRUE]

calculateLongBreak(minutes) == JsMin(45, JsMax(10, JsMul(minutes, 3)))

\* plan = {...plan, ...nextPlan}; a field nextPlan does not name is kept
updatePlanSettings(p, nextPlan) ==
  LET merged == [k \in DOMAIN p |->
                   IF k \in DOMAIN nextPlan THEN nextPlan[k] ELSE p[k]]
      hasBreak == "breakMinutes" \in DOMAIN nextPlan
                    /\ Truthy(nextPlan["breakMinutes"])
  IN IF hasBreak
       THEN [merged EXCEPT
               !.longBreakMinutes = calculateLongBreak(merged.breakMinutes)]
       ELSE merged

updatePreferences(prefs, nextPreferences) ==
  [k \in DOMAIN prefs |->
     IF k \in DOMAIN nextPreferences THEN nextPreferences[k] ELSE prefs[k]]

---------------------------------------------------------------------------
(* ui.js: the number pickers of the sidebar.  The text of an input element *)
(* is a sequence of characters.                                            *)

MaxPickerEvents == 3

pickerLimits ==
  [focusMinutes |-> [min |-> PickerFocusMin, max |-> 120],
   relaxMinutes |-> [min |-> PickerRelaxMin, max |-> 60],
   cycles |-> [min |-> PickerCyclesMin, max |-> 12]]

PickerFields == DOMAIN pickerLimits

Digits == <<"0", "1", "2", "3", "4", "5", "6", "7", "8", "9">>

IsDigit(ch) == \E d \in 1 .. 10 : Digits[d] = ch

DigitValue(ch) == (CHOOSE d \in 1 .. 10 : Digits[d] = ch) - 1

RECURSIVE parseDigits(_, _)
parseDigits(text, acc) ==
  IF text = <<>> \/ ~IsDigit(Head(text)) THEN acc
  ELSE parseDigits(Tail(text), acc * 10 + DigitValue(Head(text)))

\* parseInt(text, 10) of a text without sign or leading blanks: the number
\* its leading digits spell, NaN when it begins with no digit
parseInt(text) ==
  IF text = <<>> \/ ~IsDigit(Head(text)) THEN NaN ELSE parseDigits(text, 0)

\* the text an assignment input.value = v leaves in a text input (a number
\* input holds the empty text where this holds "NaN" or "undefined";
\* parseInt finds no number in either)
RECURSIVE String(_)
String(v) ==
  IF v = NaN THEN <<"N", "a", "N">>
  ELSE IF v = undefined
    THEN <<"u", "n", "d", "e", "f", "i", "n", "e", "d">>
  ELSE IF v < 10 THEN <<Digits[v + 1]>>
  ELSE Append(String(v \div 10), Digits[(v % 10) + 1])

\* clamp(value + delta, min, max) = Math.min(max, Math.max(min, value + delta)):
\* NaN when value is; the sum may be negative (text "0", delta -1)
clampSum(value, delta, min, max) ==
  IF ~IsNum(value) THEN NaN
  ELSE IF value + delta < min THEN min
  ELSE IF value + delta > max THEN max
  ELSE value + delta

clamp(value, min, max) == clampSum(value, 0, min, max)

\* stepValue(delta) of the picker of a field: the value it stores and shows
stepValue(text, field, delta) ==
  clampSum(parseInt(text), delta,
           pickerLimits[field].min, pickerLimits[field].max)

\* the input listener: the value it stores for the text typed
onInput(text, field) ==
  clamp(parseInt(IF text = <<>> THEN <<"0">> ELSE text),
        pickerLimits[field].min, pickerLimits[field].max)

\* the blur listener: the value it stores and shows
onBlur(text, field) ==
  clamp(JsOr(parseInt(text), pickerLimits[field].min),
        pickerLimits[field].min, pickerLimits[field].max)

---------------------------------------------------------------------------
(* timer.js.  A core record c holds what the timer module owns:            *)
(* c.ts the timerState object, c.tickerId, and c.live the intervals the    *)
(* module has armed and not cleared.                                       *)

\* the timerState literal, before initializeFromPlan() runs at module load
timerStateLiteral ==
  [status |-> "ready", phase |-> "focus", remainingSeconds |-> 0,
   durationSeconds |-> 0, cyclesLeft |-> 0, totalCycles |-> 0,
   isRunning |-> FALSE]

\* initializeFromPlan that leaves totalCycles as it was
initializeFromPlan_keepsTotalCycles(c, p) ==
  [c EXCEPT !.ts =
     [status |-> "ready", phase |-> "focus",
      durationSeconds |-> JsMul(p.focusMinutes, SecondsPerMinute),
      remainingSeconds |-> JsMul(p.focusMinutes, SecondsPerMinute),
      cyclesLeft |-> p.cycles, totalCycles |-> c.ts.totalCycles,
      isRunning |-> FALSE]]

\* initializeFromPlan that leaves remainingSeconds as it was
initializeFromPlan_keepsRemaining(c, p) ==
  [c EXCEPT !.ts =
     [status |-> "ready", phase |-> "focus",
      durationSeconds |-> JsMul(p.focusMinutes, SecondsPerMinute),
      remainingSeconds |-> c.ts.remainingSeconds,
      cyclesLeft |-> p.cycles, totalCycles |-> p.cycles,
      isRunning |-> FALSE]]

initializeFromPlan(c, p) ==
  [c EXCEPT !.ts =
     [status |-> "ready", phase |-> "focus",
      durationSeconds |-> JsMul(p.focusMinutes, SecondsPerMinute),
      remainingSeconds |-> JsMul(p.focusMinutes, SecondsPerMinute),
      cyclesLeft |-> p.cycles, totalCycles |-> p.cycles,
      isRunning |-> FALSE]]

\* setInterval: a new interval, with an id no live interval has (the browser
\* counts ids up; only their being distinct from the live ones matters)
setInterval(live) == CHOOSE i \in 1 .. (Cardinality(live) + 1) : i \notin live

\* clearTicker that forgets the id without clearInterval
clearTicker_withoutClearInterval(c) ==
  IF c.tickerId # Null THEN [c EXCEPT !.tickerId = Null] ELSE c

clearTicker(c) ==
  IF c.tickerId # Null
    THEN [c EXCEPT !.live = @ \ {c.tickerId}, !.tickerId = Null]
    ELSE c

startTicker(c) ==
  LET c1 == clearTicker(c)
      id == setInterval(c1.live)
  IN [c1 EXCEPT !.live = @ \cup {id}, !.tickerId = id]

---------------------------------------------------------------------------
(* sound.js, as far as a handler of the timer reaches into it: c.sound is  *)
(* isSoundEnabled, c.primed is deferredSoundsPrimed, c.ambient says that   *)
(* the relaxAmbient element (a loop) is playing, c.countdown that the      *)
(* countdown clip was played and not stopped since, and c.sink is what the *)
(* audio elements do when asked to play during this handler: "ok",         *)
(* "rejects" (play() returns a promise that rejects: a playback error) or  *)
(* "throws" (play() throws).  c.cues counts the calls of                   *)
(* playCountdownSound in this handler.  c.thrown: an exception is          *)
(* propagating, and the statements that follow in the handler do not run.  *)

SinkOutcomes == {"ok", "rejects", "throws"}

\* the rest of a handler: skipped while an exception propagates
Do(c, next) == IF c.thrown THEN c ELSE next

\* playClip whose play() always throws
playClip_alwaysThrows(c) ==
  IF ~c.sound THEN c ELSE [c EXCEPT !.thrown = TRUE]

\* audio.play() with nothing around it but p.catch(() => {}): a rejection is
\* swallowed, a throw is not
playClip(c) ==
  IF ~c.sound THEN c
  ELSE IF c.sink = "throws" THEN [c EXCEPT !.thrown = TRUE]
  ELSE c

playModeSwitchSound(c, mode) ==
  IF mode \in {"focus", "relax", "waiting", "ready", "paused"}
    THEN playClip(c) ELSE c

playSessionStartSound(c, mode) ==
  IF mode \in {"focus", "relax"} THEN playClip(c) ELSE c

playPauseSound(c) == playClip(c)

\* playClip(audioBank.countdown)
playCountdownSound(c) ==
  LET c1 == [c EXCEPT !.cues = @ + 1]
  IN IF c1.sound /\ c1.sink = "ok"
       THEN [c1 EXCEPT !.countdown = TRUE] ELSE playClip(c1)

\* pause() and currentTime = 0 on the countdown clip
stopCountdownSound(c) ==
  IF c.countdown THEN [c EXCEPT !.countdown = FALSE] ELSE c

\* startRelaxAmbient that plays whether or not sound is enabled
startRelaxAmbient_ignoresPreference(c) ==
  IF c.sink = "ok" THEN [c EXCEPT !.ambient = TRUE] ELSE c

\* play() on the loop inside try / catch: a failing play() is swallowed and
\* leaves the element as it was
startRelaxAmbient(c) ==
  IF c.sound /\ c.sink = "ok" THEN [c EXCEPT !.ambient = TRUE] ELSE c

\* pause() and currentTime = 0 on the loop
stopRelaxAmbient(c) ==
  IF c.ambient THEN [c EXCEPT !.ambient = FALSE] ELSE c

\* the first call plays the countdown clip and the loop muted, whatever
\* isSoundEnabled is, and pauses them again once play() has settled; the flag
\* is set before anything is played.  The call comes first in
\* performPrimaryAction, whose first call finds the timer Ready and goes on
\* to startFocus, which stops both elements at once.
primeDeferredSounds(c) ==
  IF c.primed THEN c
  ELSE [c EXCEPT !.primed = TRUE, !.thrown = (c.sink = "throws")]

\* the preferences:change listener of sound.js: isSoundEnabled follows the
\* store, and switching sound off stops the loop and the one-shot clips
\* (stopRelaxAmbient, stopAllOneShots); playing is what was playing and was
\* not stopped
onPreferencesChange(playing, prefs) == playing /\ prefs.sound

---------------------------------------------------------------------------
(* timer.js: the derived fields of a snapshot, and emit *)

deriveStatusLabel(ts) ==
  IF ts.status = "ready" THEN "Ready"
  ELSE IF ts.status = "waiting" THEN "Waiting"
  ELSE IF ts.status = "paused" THEN "Paused"
  ELSE IF ts.phase = "focus" THEN "Focus" ELSE "Relax"

\* derivePrimaryLabel that treats waiting as any other status
derivePrimaryLabel_withoutContinue(ts) ==
  IF ts.status = "running" THEN "Pause"
  ELSE IF ts.status = "paused" THEN "Resume"
  ELSE "Start"

derivePrimaryLabel(ts) ==
  IF ts.status = "running" THEN "Pause"
  ELSE IF ts.status = "paused" THEN "Resume"
  ELSE IF ts.status = "waiting" THEN "Continue"
  ELSE "Start"

\* deriveTone that looks at the phase before the paused status
deriveTone_phaseFirst(ts) ==
  IF ts.status = "waiting" THEN "waiting"
  ELSE IF ts.status = "ready" THEN "ready"
  ELSE IF ts.phase = "focus" THEN "focus" ELSE "relax"

deriveTone(ts) ==
  IF ts.status = "paused" THEN "paused"
  ELSE IF ts.status = "waiting" THEN "waiting"
  ELSE IF ts.status = "ready" THEN "ready"
  ELSE IF ts.phase = "focus" THEN "focus" ELSE "relax"

\* calculateTotalRemaining that leaves the coming relax phase out while in focus
calculateTotalRemaining_focusOmitsRelax(ts, p) ==
  LET focusSeconds == JsMul(p.focusMinutes, SecondsPerMinute)
      relaxSeconds == JsMul(p.relaxMinutes, SecondsPerMinute)
      cycles == JsMax(ts.cyclesLeft, 0)
      remainingCycles == JsMax(JsSub(cycles, 1), 0)
  IN IF ts.status = "ready"
       THEN JsMul(cycles, JsAdd(focusSeconds, relaxSeconds))
       ELSE JsAdd(ts.remainingSeconds,
                  JsMul(remainingCycles, JsAdd(focusSeconds, relaxSeconds)))

calculateTotalRemaining(ts, p) ==
  LET focusSeconds == JsMul(p.focusMinutes, SecondsPerMinute)
      relaxSeconds == JsMul(p.relaxMinutes, SecondsPerMinute)
      cycles == JsMax(ts.cyclesLeft, 0)
      remainingCycles == JsMax(JsSub(cycles, 1), 0)
  IN IF ts.status = "ready"
       THEN JsMul(cycles, JsAdd(focusSeconds, relaxSeconds))
     ELSE IF ts.phase = "focus"
       THEN JsAdd(JsAdd(ts.remainingSeconds, relaxSeconds),
                  JsMul(remainingCycles, JsAdd(focusSeconds, relaxSeconds)))
     ELSE JsAdd(ts.remainingSeconds,
                JsMul(remainingCycles, JsAdd(focusSeconds, relaxSeconds)))

\* a message is a tuple: its text and, where the text names it, cyclesLeft;
\* emit() without an argument carries no message
NoMessage == <<>>

\* the detail of a timer:update event
Detail(ts, p, message) ==
  [status |-> ts.status, phase |-> ts.phase,
   remainingSeconds |-> ts.remainingSeconds,
   durationSeconds |-> ts.durationSeconds,
   cyclesLeft |-> ts.cyclesLeft, totalCycles |-> ts.totalCycles,
   isRunning |-> ts.isRunning,
   statusLabel |-> deriveStatusLabel(ts),
   primaryLabel |-> derivePrimaryLabel(ts),
   tone |-> deriveTone(ts),
   totalRemainingSeconds |-> calculateTotalRemaining(ts, p),
   message |-> message]

\* the TimerState fields of a snapshot
StateOf(d) ==
  [status |-> d.status, phase |-> d.phase,
   remainingSeconds |-> d.remainingSeconds,
   durationSeconds |-> d.durationSeconds,
   cyclesLeft |-> d.cyclesLeft, totalCycles |-> d.totalCycles,
   isRunning |-> d.isRunning]

emit(c, p, message) ==
  [c EXCEPT !.out = Append(@, Detail(c.ts, p, message))]

\* getTimerState: the snapshot shape without a message
getTimerState(ts, p) == Detail(ts, p, NoMessage)

---------------------------------------------------------------------------
(* timer.js: the handlers.  stopMetronome / startMetronome are empty. *)

\* prepareWaitingState that leaves the phase as it was
prepareWaitingState_keepsPhase(c, p) ==
  stopRelaxAmbient(
    [c EXCEPT !.ts.status = "waiting",
              !.ts.durationSeconds = JsMul(p.focusMinutes, SecondsPerMinute),
              !.ts.remainingSeconds = JsMul(p.focusMinutes, SecondsPerMinute),
              !.ts.isRunning = FALSE])

prepareWaitingState(c, p) ==
  stopRelaxAmbient(
    [c EXCEPT !.ts.status = "waiting", !.ts.phase = "focus",
              !.ts.durationSeconds = JsMul(p.focusMinutes, SecondsPerMinute),
              !.ts.remainingSeconds = JsMul(p.focusMinutes, SecondsPerMinute),
              !.ts.isRunning = FALSE])

startFocus(c, p, message) ==
  LET d == JsMul(p.focusMinutes, SecondsPerMinute)
      c1 == [c EXCEPT !.ts.status = "running", !.ts.phase = "focus",
                      !.ts.durationSeconds = d,
                      !.ts.remainingSeconds = JsOr(@, d),
                      !.ts.isRunning = TRUE]
      c2 == playModeSwitchSound(stopCountdownSound(stopRelaxAmbient(c1)),
                                "focus")
      c3 == Do(c2, playSessionStartSound(c2, "focus"))
      c4 == Do(c3, startTicker(c3))
  IN Do(c4, emit(c4, p, message))

\* startRelax that leaves remainingSeconds as the completed phase left it
startRelax_keepsRemaining(c, p) ==
  LET d == JsMul(p.relaxMinutes, SecondsPerMinute)
      c1 == [c EXCEPT !.ts.status = "running", !.ts.phase = "relax",
                      !.ts.durationSeconds = d,
                      !.ts.isRunning = TRUE]
      c2 == playModeSwitchSound(stopCountdownSound(c1), "relax")
      c3 == Do(c2, playSessionStartSound(c2, "relax"))
      c4 == Do(c3, startRelaxAmbient(c3))
  IN Do(c4, startTicker(c4))

startRelax(c, p) ==
  LET d == JsMul(p.relaxMinutes, SecondsPerMinute)
      c1 == [c EXCEPT !.ts.status = "running", !.ts.phase = "relax",
                      !.ts.durationSeconds = d,
                      !.ts.remainingSeconds = d,
                      !.ts.isRunning = TRUE]
      c2 == playModeSwitchSound(stopCountdownSound(c1), "relax")
      c3 == Do(c2, playSessionStartSound(c2, "relax"))
      c4 == Do(c3, startRelaxAmbient(c3))
  IN Do(c4, startTicker(c4))

\* pauseTimer that does not clear the ticker
pauseTimer_keepsTicker(c, p) ==
  LET c1 == [c EXCEPT !.ts.status = "paused", !.ts.isRunning = FALSE]
      c2 == playModeSwitchSound(stopCountdownSound(stopRelaxAmbient(c1)),
                                "paused")
      c3 == Do(c2, playPauseSound(c2))
  IN Do(c3, emit(c3, p, <<"Timer paused">>))

pauseTimer(c, p) ==
  LET c1 == [clearTicker(c) EXCEPT !.ts.status = "paused",
                                   !.ts.isRunning = FALSE]
      c2 == playModeSwitchSound(stopCountdownSound(stopRelaxAmbient(c1)),
                                "paused")
      c3 == Do(c2, playPauseSound(c2))
  IN Do(c3, emit(c3, p, <<"Timer paused">>))

\* resumeTimer that starts the phase over
resumeTimer_restartsPhase(c, p) ==
  LET c1 == [c EXCEPT !.ts.status = "running", !.ts.isRunning = TRUE,
                      !.ts.remainingSeconds = c.ts.durationSeconds]
      c2 == IF c1.ts.phase = "focus" THEN c1 ELSE startRelaxAmbient(c1)
      c3 == playSessionStartSound(c2, c2.ts.phase)
      c4 == Do(c3, startTicker(c3))
  IN Do(c4, emit(c4, p, <<"Timer resumed">>))

\* resumeTimer that takes the duration of the phase from the plan again
resumeTimer_rereadsPlan(c, p) ==
  LET c1 == [c EXCEPT !.ts.status = "running", !.ts.isRunning = TRUE,
                      !.ts.durationSeconds =
                        JsMul(IF c.ts.phase = "focus" THEN p.focusMinutes
                                                      ELSE p.relaxMinutes,
                              SecondsPerMinute)]
      c2 == IF c1.ts.phase = "focus" THEN c1 ELSE startRelaxAmbient(c1)
      c3 == playSessionStartSound(c2, c2.ts.phase)
      c4 == Do(c3, startTicker(c3))
  IN Do(c4, emit(c4, p, <<"Timer resumed">>))

resumeTimer(c, p) ==
  LET c1 == [c EXCEPT !.ts.status = "running", !.ts.isRunning = TRUE]
      c2 == IF c1.ts.phase = "focus" THEN c1 ELSE startRelaxAmbient(c1)
      c3 == playSessionStartSound(c2, c2.ts.phase)
      c4 == Do(c3, startTicker(c3))
  IN Do(c4, emit(c4, p, <<"Timer resumed">>))

\* finishPlan that emits before it re-initializes
finishPlan_emitsFirst(c, p) ==
  LET c1 == playModeSwitchSound(c, "ready")
      c2 == Do(c1, emit(stopRelaxAmbient(c1), p,
                        <<"Plan finished. Good job!">>))
  IN Do(c2, initializeFromPlan(c2, p))

\* what handlePhaseCompletion does when the relax phase of the last cycle ends
finishPlan(c, p) ==
  LET c1 == playModeSwitchSound(c, "ready")
      c2 == Do(c1, initializeFromPlan(stopRelaxAmbient(c1), p))
  IN Do(c2, emit(c2, p, <<"Plan finished. Good job!">>))

\* what handlePhaseCompletion does when a cycle ends and autoCycle is off
waitForContinue(c, p) ==
  LET c1 == prepareWaitingState(c, p)
      c2 == playModeSwitchSound(c1, "waiting")
  IN Do(c2, emit(c2, p, <<"Cycle finished. Press Continue", c2.ts.cyclesLeft>>))

\* what handlePhaseCompletion does when a focus phase ends
relaxAfterFocus_startsFocus(c, p) ==
  startFocus(c, p, <<"Relax started">>)

relaxAfterFocus(c, p) ==
  LET c1 == startRelax(c, p)
  IN Do(c1, emit(c1, p, <<"Relax started">>))

\* the first statements of handlePhaseCompletion
endPhase(c) ==
  stopCountdownSound([clearTicker(c) EXCEPT !.ts.remainingSeconds = 0,
                                            !.ts.isRunning = FALSE])

\* handlePhaseCompletion that never auto-cycles: a finished cycle always waits
handlePhaseCompletion_alwaysWaits(c, p, prefs) ==
  LET c1 == endPhase(c)
      c2 == [c1 EXCEPT !.ts.cyclesLeft = JsMax(JsSub(@, 1), 0)]
  IN IF c1.ts.phase = "focus" THEN relaxAfterFocus(c1, p)
     ELSE IF JsLe(c2.ts.cyclesLeft, 0) THEN finishPlan(c2, p)
     ELSE waitForContinue(c2, p)

\* handlePhaseCompletion that does not read the autoCycle preference
handlePhaseCompletion_alwaysAutoCycles(c, p, prefs) ==
  LET c1 == endPhase(c)
      c2 == [c1 EXCEPT !.ts.cyclesLeft = JsMax(JsSub(@, 1), 0)]
  IN IF c1.ts.phase = "focus" THEN relaxAfterFocus(c1, p)
     ELSE IF JsLe(c2.ts.cyclesLeft, 0) THEN finishPlan(c2, p)
     ELSE startFocus(c2, p, <<"Next focus started", c2.ts.cyclesLeft>>)

\* handlePhaseCompletion that counts a cycle down at the end of a focus phase
\* as well
handlePhaseCompletion_countsFocus(c, p, prefs) ==
  LET c1 == endPhase(c)
      c2 == [c1 EXCEPT !.ts.cyclesLeft = JsMax(JsSub(@, 1), 0)]
  IN IF c1.ts.phase = "focus" THEN relaxAfterFocus(c2, p)
     ELSE IF JsLe(c2.ts.cyclesLeft, 0) THEN finishPlan(c2, p)
     ELSE IF prefs.autoCycle
       THEN startFocus(c2, p, <<"Next focus started", c2.ts.cyclesLeft>>)
     ELSE waitForContinue(c2, p)

handlePhaseCompletion(c, p, prefs) ==
  LET c1 == endPhase(c)
      c2 == [c1 EXCEPT !.ts.cyclesLeft = JsMax(JsSub(@, 1), 0)]
  IN IF c1.ts.phase = "focus" THEN relaxAfterFocus(c1, p)
     ELSE IF JsLe(c2.ts.cyclesLeft, 0) THEN finishPlan(c2, p)
     ELSE IF prefs.autoCycle
       THEN startFocus(c2, p, <<"Next focus started", c2.ts.cyclesLeft>>)
     ELSE waitForContinue(c2, p)

\* cueAndUpdate that warns during the last five seconds
cueAndUpdate_lastFiveSeconds(c, p) ==
  LET c1 == IF c.ts.status = "running" /\ JsGt(c.ts.remainingSeconds, 0)
                 /\ JsLe(c.ts.remainingSeconds, 5)
              THEN playCountdownSound(c) ELSE c
  IN Do(c1, emit(c1, p, NoMessage))

\* the part of handleTick after the decrement: the countdown cue in the last
\* three seconds, then the plain update
cueAndUpdate(c, p) ==
  LET c1 == IF c.ts.status = "running" /\ JsGt(c.ts.remainingSeconds, 0)
                 /\ JsLe(c.ts.remainingSeconds, 3)
              THEN playCountdownSound(c) ELSE c
  IN Do(c1, emit(c1, p, NoMessage))

\* handleTick without the check after the decrement: a phase that reaches 0
\* completes one tick late
handleTick_completesLate(c, p, prefs) ==
  IF JsLe(c.ts.remainingSeconds, 0)
    THEN handlePhaseCompletion(c, p, prefs)
    ELSE cueAndUpdate([c EXCEPT !.ts.remainingSeconds = JsSub(@, 1)], p)

handleTick(c, p, prefs) ==
  IF JsLe(c.ts.remainingSeconds, 0)
    THEN handlePhaseCompletion(c, p, prefs)
    ELSE LET c1 == cueAndUpdate(
                     [c EXCEPT !.ts.remainingSeconds = JsSub(@, 1)], p)
         IN Do(c1, IF JsLe(c1.ts.remainingSeconds, 0)
                     THEN handlePhaseCompletion(c1, p, prefs)
                     ELSE c1)

performPrimaryAction(c, p) ==
  LET c0 == primeDeferredSounds(c)
  IN Do(c0,
        IF c0.ts.status = "running" THEN pauseTimer(c0, p)
        ELSE IF c0.ts.status = "paused" THEN resumeTimer(c0, p)
        ELSE IF c0.ts.status = "waiting"
          THEN startFocus(c0, p, <<"Next focus started", c0.ts.cyclesLeft>>)
        ELSE startFocus(c0, p, <<"Timer started">>))

\* clearTicker and the stop calls resetTimer and applyPlanSettings begin with
stopAll(c) == stopCountdownSound(stopRelaxAmbient(clearTicker(c)))

\* resetTimer that leaves the ticker armed
resetTimer_withoutClearTicker(c, p) ==
  emit(initializeFromPlan(stopCountdownSound(stopRelaxAmbient(c)), p), p,
       <<"Timer reset">>)

\* resetTimer that emits before it re-initializes
resetTimer_emitsFirst(c, p) ==
  initializeFromPlan(emit(stopAll(c), p, <<"Timer reset">>), p)

resetTimer(c, p) ==
  emit(initializeFromPlan(stopAll(c), p), p, <<"Timer reset">>)

\* applyPlanSettings that keeps a session that is under way
applyPlanSettings_keepsCyclesLeft(c, p) ==
  emit([initializeFromPlan(stopAll(c), p)
          EXCEPT !.ts.cyclesLeft = c.ts.cyclesLeft], p, NoMessage)

applyPlanSettings_keepsSession(c, p) ==
  IF c.ts.status = "ready"
    THEN emit(initializeFromPlan(stopAll(c), p), p, NoMessage)
    ELSE emit(c, p, NoMessage)

applyPlanSettings(c, p) ==
  emit(initializeFromPlan(stopAll(c), p), p, NoMessage)

---------------------------------------------------------------------------
(* The state machine *)

\* the timer and sound modules' state as a handler finds it, with the audio
\* elements behaving as sink while it runs
CoreWith(sink) ==
  [ts |-> timerState, tickerId |-> tickerId, live |-> liveIntervals,
   primed |-> deferredSoundsPrimed, sound |-> preferences.sound,
   ambient |-> relaxAmbientPlaying, countdown |-> countdownStarted,
   cues |-> 0,
   sink |-> sink, out |-> <<>>, thrown |-> FALSE]

\* the audio elements play what they are asked to
Core == CoreWith("ok")

SetCore(c) ==
  /\ timerState' = c.ts
  /\ tickerId' = c.tickerId
  /\ liveIntervals' = c.live
  /\ deferredSoundsPrimed' = c.primed
  /\ relaxAmbientPlaying' = c.ambient
  /\ countdownStarted' = c.countdown
  /\ cued' = c.cues
  /\ emitted' = c.out
  /\ threw' = c.thrown

\* run.ticks counts the tick callbacks since the start intent was given in
\* Ready, while no other intent and no store update of the plan came between;
\* run.auto: autoCycle was on at that start and has not been switched off since;
\* run.cycles: cyclesLeft at that start.  NoRun: no such run is under way.
NoRun == [ticks |-> -1, auto |-> FALSE, cycles |-> 0]

\* no phase has run to its end since initializeFromPlan
NoneCompleted == [focus |-> 0, relax |-> 0]

\* a handler was cut short by an exception since initializeFromPlan: the
\* phases are no longer counted
NotCounted == [focus |-> NaN, relax |-> NaN]

PrimaryOp(status) ==
  IF status = "running" THEN "pause"
  ELSE IF status = "paused" THEN "resume"
  ELSE IF status = "waiting" THEN "continue"
  ELSE "start"

\* status and phase as the last operation of the timer module found them
From == [status |-> timerState.status, phase |-> timerState.phase]

\* the tick at hand ends the phase
PhaseCompletes ==
  /\ timerState.status = "running"
  /\ JsLe(timerState.remainingSeconds, 1)

\* the second run is kept as the record its last handler left (twin.out:
\* the events that handler dispatched); TwinCore is what its next handler
\* finds: its audio elements play
TwinCore == [twin EXCEPT !.out = <<>>, !.cues = 0]

Init ==
  /\ plan = DEFAULT_PLAN
  /\ preferences = DEFAULT_PREFERENCES
  /\ timerState =
       initializeFromPlan([ts |-> timerStateLiteral, tickerId |-> Null,
                           live |-> {}], DEFAULT_PLAN).ts
  /\ tickerId = Null
  /\ liveIntervals = {}
  /\ deferredSoundsPrimed = FALSE
  /\ relaxAmbientPlaying = FALSE
  /\ countdownStarted = FALSE
  /\ cued = 0
  /\ cuesInPhase = 0
  /\ run = NoRun
  /\ completed = NoneCompleted
  /\ pickerValues = DEFAULT_PLAN
  /\ inputValue = [field \in PickerFields |-> String(DEFAULT_PLAN[field])]
  /\ pickerEvents = 0
  /\ lastOp = "load"
  /\ lastFrom = [status |-> "ready", phase |-> "focus"]
  /\ emitted = <<>>
  /\ threw = FALSE
  /\ twin = [ts |-> initializeFromPlan([ts |-> timerStateLiteral],
                                       DEFAULT_PLAN).ts,
             tickerId |-> Null, live |-> {}, primed |-> FALSE,
             sound |-> DEFAULT_PREFERENCES.sound, ambient |-> FALSE,
             countdown |-> FALSE, cues |-> 0, sink |-> "ok",
             out |-> <<>>, thrown |-> FALSE]

\* primaryButton / timerCircle click, the audio elements behaving as sink
PerformPrimaryActionWith(sink) ==
  /\ lastOp' = PrimaryOp(timerState.status)
  /\ lastFrom' = From
  /\ UNCHANGED <<plan, preferences>>
  /\ run' = IF timerState.status = "ready"
              THEN [ticks |-> 0, auto |-> preferences.autoCycle,
                    cycles |-> timerState.cyclesLeft]
              ELSE NoRun
  /\ cuesInPhase' = IF timerState.status \in {"ready", "waiting"}
                      THEN 0 ELSE cuesInPhase
  /\ UNCHANGED pickerVars
  /\ SetCore(performPrimaryAction(CoreWith(sink), plan))
  /\ completed' = IF threw' THEN NotCounted ELSE completed

PerformPrimaryAction == PerformPrimaryActionWith("ok") /\ UNCHANGED twin

\* resetButton click
ResetClick ==
  /\ lastOp' = "reset"
  /\ lastFrom' = From
  /\ UNCHANGED <<plan, preferences>>
  /\ run' = NoRun
  /\ cuesInPhase' = 0
  /\ completed' = NoneCompleted
  /\ UNCHANGED pickerVars
  /\ SetCore(resetTimer(Core, plan))

ResetTimer == ResetClick /\ UNCHANGED twin

\* applyPlanButton click with pickerValues {f, r, n}:
\* updatePlanSettings(pickerValues); applyPlanSettings().  pickerValues starts as a copy of the store's plan, so its relaxMinutes is
\* undefined until the relax picker is edited: an undefined relaxMinutes is
\* applied only while the store has never been given one.
ApplyPlanWith(f, r, n) ==
  LET p2 == updatePlanSettings(plan,
              [focusMinutes |-> f, relaxMinutes |-> r, cycles |-> n])
  IN /\ r = undefined => plan.relaxMinutes = undefined
     /\ lastOp' = "applyPlan"
     /\ lastFrom' = From
     /\ UNCHANGED preferences
     /\ run' = NoRun
     /\ cuesInPhase' = 0
     /\ completed' = NoneCompleted
     /\ UNCHANGED pickerVars
     /\ plan' = p2
     /\ SetCore(applyPlanSettings(Core, p2))

ApplyPlanClick ==
  \E f \in FocusChoices, r \in RelaxChoices, n \in CyclesChoices :
    ApplyPlanWith(f, r, n) /\ UNCHANGED twin

\* updatePreferences(next) and the listener of sound.js
PreferencesChange(next) ==
  /\ preferences' = updatePreferences(preferences, next)
  /\ run' = IF run.ticks >= 0
              THEN [run EXCEPT !.auto = @ /\ preferences'.autoCycle]
              ELSE run
  /\ relaxAmbientPlaying' =
       onPreferencesChange(relaxAmbientPlaying, preferences')
  /\ countdownStarted' = onPreferencesChange(countdownStarted, preferences')
  /\ UNCHANGED <<timerState, tickerId, liveIntervals, deferredSoundsPrimed,
                 plan, lastOp, lastFrom, emitted, threw, cued, cuesInPhase,
                 completed, pickerVars>>

\* autoCycleToggle / soundToggle change
UpdatePreferences ==
  \E next \in { [autoCycle |-> b] : b \in BOOLEAN }
              \cup { [sound |-> b] : b \in BOOLEAN } :
    PreferencesChange(next) /\ UNCHANGED twin

\* a live interval fires: handleTick(), the audio elements behaving as sink
TickWith(sink) ==
  \E id \in liveIntervals :
    /\ lastOp' = "tick"
    /\ lastFrom' = From
    /\ UNCHANGED <<plan, preferences, pickerVars>>
    /\ run' = IF run.ticks >= 0 /\ IsNum(timerState.remainingSeconds)
                THEN [run EXCEPT !.ticks = @ + 1]
                ELSE NoRun
    /\ SetCore(handleTick(CoreWith(sink), plan, preferences))
    /\ cuesInPhase' = IF PhaseCompletes THEN 0
                      ELSE cuesInPhase + cued'
    /\ completed' = IF threw' THEN NotCounted
                    ELSE IF PhaseCompletes /\ timerState'.status = "ready"
                      THEN NoneCompleted
                    ELSE IF ~PhaseCompletes \/ completed = NotCounted
                      THEN completed
                    ELSE [completed EXCEPT ![timerState.phase] = @ + 1]

Tick == TickWith("ok") /\ UNCHANGED twin

\* updatePlanSettings with a timer that re-initializes on plan:change
UpdatePlanSettings_reinitializes ==
  \E f \in FocusChoices, r \in RelaxChoices, n \in CyclesChoices :
    /\ plan' = updatePlanSettings(plan,
                 [focusMinutes |-> f, relaxMinutes |-> r, cycles |-> n])
    /\ run' = NoRun
    /\ completed' = NoneCompleted
    /\ timerState' = initializeFromPlan(Core, plan').ts
    /\ UNCHANGED <<tickerId, liveIntervals, deferredSoundsPrimed,
                   preferences, lastOp, lastFrom, emitted, threw,
                   relaxAmbientPlaying, countdownStarted, cued, cuesInPhase,
                   pickerVars, twin>>

\* the store's updatePlanSettings called on its own
UpdatePlanSettings ==
  \E f \in FocusChoices, r \in RelaxChoices, n \in CyclesChoices :
    /\ plan' = updatePlanSettings(plan,
                 [focusMinutes |-> f, relaxMinutes |-> r, cycles |-> n])
    /\ run' = NoRun
    /\ UNCHANGED <<timerState, tickerId, liveIntervals, deferredSoundsPrimed,
                   preferences, lastOp, lastFrom, emitted, threw,
                   relaxAmbientPlaying, countdownStarted, cued, cuesInPhase,
                   completed, pickerVars, twin>>

\* the timer's applyPlanSettings called on its own
ApplyPlanSettings ==
  /\ lastOp' = "applyPlan"
  /\ lastFrom' = From
  /\ UNCHANGED <<plan, preferences, twin>>
  /\ run' = NoRun
  /\ cuesInPhase' = 0
  /\ completed' = NoneCompleted
  /\ UNCHANGED pickerVars
  /\ SetCore(applyPlanSettings(Core, plan))

\* a click or a tick while the audio elements fail: play() rejects or throws
PerformPrimaryActionSinkFails ==
  \E sink \in SinkOutcomes \ {"ok"} :
    PerformPrimaryActionWith(sink) /\ UNCHANGED twin

TickSinkFails ==
  \E sink \in SinkOutcomes \ {"ok"} : TickWith(sink) /\ UNCHANGED twin

\* the same click, reset, apply or tick given to both runs
TwinPerformPrimaryAction ==
  /\ PerformPrimaryActionWith("ok")
  /\ twin' = performPrimaryAction(TwinCore, plan)

TwinResetTimer ==
  /\ ResetClick
  /\ twin' = resetTimer(TwinCore, plan)

\* (Apply with all three pickers set; the plan the store is loaded with
\* is the one without relaxMinutes)
TwinApplyPlanClick ==
  \E f \in FocusChoices, r \in RelaxChoices \ {undefined},
     n \in CyclesChoices :
    /\ ApplyPlanWith(f, r, n)
    /\ twin' = applyPlanSettings(TwinCore, plan')

TwinTick ==
  /\ TickWith("ok")
  /\ twin' = IF twin.live # {}
               THEN handleTick(TwinCore, plan, preferences)
               ELSE twin

\* autoCycleToggle change: both runs read the same autoCycle
TwinAutoCycleChange ==
  \E b \in BOOLEAN :
    PreferencesChange([autoCycle |-> b]) /\ UNCHANGED twin

\* soundToggle change in the second run: its isSoundEnabled follows, and
\* its listener stops its loop when sound goes off
TwinSoundChange ==
  \E b \in BOOLEAN :
    /\ twin' = [twin EXCEPT
                  !.sound = b,
                  !.ambient = onPreferencesChange(@, [sound |-> b]),
                  !.countdown = onPreferencesChange(@, [sound |-> b])]
    /\ UNCHANGED <<timerState, tickerId, liveIntervals, deferredSoundsPrimed,
                   relaxAmbientPlaying, countdownStarted, cued, cuesInPhase,
                   plan, preferences, run, lastOp, lastFrom, emitted, threw,
                   completed, pickerVars>>

\* the texts typed into a picker's input: none, "0", a number within every
\* picker's limits, a number above every picker's maximum
TypedTexts == {<<>>, <<"0">>, <<"7">>, <<"1", "2", "1">>}

\* mousedown / touchstart on a picker control, or a repeat while it is held
StepValue ==
  \E field \in PickerFields, delta \in {-1, 1} :
    LET next == stepValue(inputValue[field], field, delta)
    IN /\ pickerEvents < MaxPickerEvents
       /\ pickerEvents' = pickerEvents + 1
       /\ pickerValues' = [pickerValues EXCEPT ![field] = next]
       /\ inputValue' = [inputValue EXCEPT ![field] = String(next)]
       /\ UNCHANGED <<timerState, tickerId, liveIntervals,
                      deferredSoundsPrimed, relaxAmbientPlaying,
                      countdownStarted, plan, preferences, run, lastOp,
                      lastFrom, emitted, cued, cuesInPhase, threw,
                      completed, twin>>

\* input event: the user has typed text into a picker's input
PickerInput ==
  \E field \in PickerFields, text \in TypedTexts :
    /\ pickerEvents < MaxPickerEvents
    /\ pickerEvents' = pickerEvents + 1
    /\ pickerValues' = [pickerValues EXCEPT ![field] = onInput(text, field)]
    /\ inputValue' = [inputValue EXCEPT ![field] = text]
    /\ UNCHANGED <<timerState, tickerId, liveIntervals,
                   deferredSoundsPrimed, relaxAmbientPlaying,
                   countdownStarted, plan, preferences, run, lastOp,
                   lastFrom, emitted, cued, cuesInPhase, threw,
                   completed, twin>>

\* blur event of a picker's input
PickerBlur ==
  \E field \in PickerFields :
    LET next == onBlur(inputValue[field], field)
    IN /\ pickerEvents < MaxPickerEvents
       /\ pickerEvents' = pickerEvents + 1
       /\ pickerValues' = [pickerValues EXCEPT ![field] = next]
       /\ inputValue' = [inputValue EXCEPT ![field] = String(next)]
       /\ UNCHANGED <<timerState, tickerId, liveIntervals,
                      deferredSoundsPrimed, relaxAmbientPlaying,
                      countdownStarted, plan, preferences, run, lastOp,
                      lastFrom, emitted, cued, cuesInPhase, threw,
                      completed, twin>>

\* applyPlanButton click: the plan the pickers hold goes to the store
ApplyButtonClick ==
  /\ ApplyPlanWith(pickerValues.focusMinutes, pickerValues.relaxMinutes,
                   pickerValues.cycles)
  /\ UNCHANGED twin

\* the application: the store changes only through the display layer
Next ==
  \/ PerformPrimaryAction
  \/ ResetTimer
  \/ ApplyPlanClick
  \/ UpdatePreferences
  \/ Tick

Spec == Init /\ [][Next]_vars

\* the timer and the store as modules: every exported operation on its own
NextApi ==
  \/ PerformPrimaryAction
  \/ ResetTimer
  \/ ApplyPlanSettings
  \/ UpdatePlanSettings
  \/ UpdatePreferences
  \/ Tick

SpecApi == Init /\ [][NextApi]_vars

\* the application in a browser whose audio elements may fail
NextSink ==
  \/ PerformPrimaryAction
  \/ PerformPrimaryActionSinkFails
  \/ ResetTimer
  \/ ApplyPlanClick
  \/ UpdatePreferences
  \/ Tick
  \/ TickSinkFails

SpecSink == Init /\ [][NextSink]_vars

\* the sidebar: the pickers and the Apply button
NextPicker ==
  \/ StepValue
  \/ PickerInput
  \/ PickerBlur
  \/ ApplyButtonClick

SpecPicker == Init /\ [][NextPicker]_vars

\* two runs of the application side by side, given the same clicks, ticks,
\* plans and autoCycle values: the first keeps the sound preference it was
\* loaded with, the second switches sound off and on at will
NextTwin ==
  \/ TwinPerformPrimaryAction
  \/ TwinResetTimer
  \/ TwinApplyPlanClick
  \/ TwinAutoCycleChange
  \/ TwinSoundChange
  \/ TwinTick

SpecTwin == Init /\ [][NextTwin]_vars

---------------------------------------------------------------------------
(* Shorthands of the claims *)

FocusSeconds == JsMul(plan.focusMinutes, SecondsPerMinute)
RelaxSeconds == JsMul(plan.relaxMinutes, SecondsPerMinute)
TickerArmed == liveIntervals # {}

---------------------------------------------------------------------------
\* C1: between operations, status is running exactly when isRunning is true,
\* and exactly when a ticker is armed (tickerId is non-null and its interval
\* is live).
C1_RunningIffTicker ==
  /\ (timerState.status = "running") <=> timerState.isRunning
  /\ timerState.isRunning <=> (tickerId # Null)
  /\ (tickerId # Null) <=> TickerArmed
  /\ tickerId # Null => tickerId \in liveIntervals

\* a relax phase paused: the ticker a tick armed has been disarmed again
C1_Witness ==
  /\ timerState.status = "paused"
  /\ timerState.phase = "relax"
  /\ lastOp = "pause"
  /\ ~timerState.isRunning
  /\ tickerId = Null

\* C2: at most one interval that calls handleTick is live at any time, and
\* it is the one tickerId names: every arming cancels the previous one.
C2_SingleTicker ==
  /\ Cardinality(liveIntervals) <= 1
  /\ liveIntervals \subseteq {tickerId}

\* the ticker armed again after an earlier one was cancelled
C2_Witness ==
  /\ lastOp \in {"resume", "continue"}
  /\ Cardinality(liveIntervals) = 1

\* C3: between operations 0 <= remainingSeconds <= durationSeconds, for
\* every sequence of intents, ticks and plan-store updates.
C3_RemainingWithinDuration ==
  /\ JsLe(0, timerState.remainingSeconds)
  /\ JsLe(timerState.remainingSeconds, timerState.durationSeconds)

\* C4: phase is relax only while status is running or paused; in ready and
\* waiting the phase is focus.
C4_RelaxOnlyRunningOrPaused ==
  /\ timerState.phase = "relax" => timerState.status \in {"running", "paused"}
  /\ timerState.status \in {"ready", "waiting"} => timerState.phase = "focus"

\* Waiting and Ready entered from a relax phase
C4_Witness ==
  /\ lastOp = "tick"
  /\ timerState.status \in {"waiting", "ready"}

\* C5: 0 <= cyclesLeft <= totalCycles, and totalCycles is the plan's cycle
\* count (the plan changes only together with a re-initialization).
C5_CyclesLeftWithinTotal ==
  /\ JsLe(0, timerState.cyclesLeft)
  /\ JsLe(timerState.cyclesLeft, timerState.totalCycles)
  /\ timerState.totalCycles = plan.cycles

\* a cycle has been counted off
C5_Witness ==
  /\ IsNum(timerState.cyclesLeft)
  /\ IsNum(timerState.totalCycles)
  /\ timerState.cyclesLeft < timerState.totalCycles

\* C6: right after initialization (load, reset, apply-plan, plan finished:
\* the only ways into Ready) the state is ready, focus,
\* remaining = duration = focusMinutes * 60, cyclesLeft = totalCycles = cycles,
\* isRunning false and no ticker armed.
C6_FreshAfterInitialization ==
  timerState.status = "ready" \/ lastOp \in {"load", "reset", "applyPlan"} =>
    /\ timerState.status = "ready"
    /\ timerState.phase = "focus"
    /\ JsEq(timerState.remainingSeconds, FocusSeconds)
    /\ JsEq(timerState.durationSeconds, FocusSeconds)
    /\ JsEq(timerState.cyclesLeft, plan.cycles)
    /\ JsEq(timerState.totalCycles, plan.cycles)
    /\ timerState.isRunning = FALSE
    /\ tickerId = Null
    /\ ~TickerArmed

\* initialization from a plan other than the default, over a session under way
C6_Witness ==
  /\ timerState.status = "ready"
  /\ lastOp \in {"reset", "tick"}
  /\ plan.focusMinutes # DEFAULT_PLAN.focusMinutes
  /\ plan.cycles # DEFAULT_PLAN.cycles

\* C7: after the start intent given in Ready and exactly focusMinutes * 60
\* ticks with no other intent between, the timer is running in phase relax
\* with remainingSeconds = durationSeconds = relaxMinutes * 60 and cyclesLeft
\* as it was at the start; after fewer ticks it is still running in focus.
C7_FocusTicksThenRelax ==
  run.ticks >= 0 =>
    /\ run.ticks < FocusSeconds =>
          timerState.status = "running" /\ timerState.phase = "focus"
    /\ run.ticks = FocusSeconds =>
          /\ timerState.status = "running"
          /\ timerState.phase = "relax"
          /\ JsEq(timerState.remainingSeconds, RelaxSeconds)
          /\ JsEq(timerState.durationSeconds, RelaxSeconds)
          /\ JsEq(timerState.cyclesLeft, run.cycles)

\* C7 where the store holds a relaxMinutes: the statement as it holds
C7_WhereRelaxMinutesIsSet ==
  IsNum(plan.relaxMinutes) => C7_FocusTicksThenRelax

\* C8: with cycles = N and autoCycle on, after the start and exactly
\* N * (focusMinutes + relaxMinutes) * 60 ticks with no other intent the
\* timer is back in Ready with phase focus, cyclesLeft = N,
\* remainingSeconds = focusMinutes * 60 and no ticker armed; it is not in
\* Ready at any earlier tick of the run.
C8_FullPlanReturnsToReady ==
  LET total == JsMul(plan.cycles,
                 JsMul(JsAdd(plan.focusMinutes, plan.relaxMinutes),
                       SecondsPerMinute))
  IN run.ticks >= 0 /\ run.auto /\ IsNum(total) =>
       /\ run.ticks < total => timerState.status # "ready"
       /\ run.ticks = total =>
             /\ timerState.status = "ready"
             /\ timerState.phase = "focus"
             /\ JsEq(timerState.cyclesLeft, plan.cycles)
             /\ JsEq(timerState.remainingSeconds, FocusSeconds)
             /\ tickerId = Null
             /\ ~TickerArmed

\* a plan of several cycles run to its end
C8_Witness ==
  /\ run.ticks >= 0
  /\ run.auto
  /\ plan.cycles >= 2
  /\ run.ticks = plan.cycles * (plan.focusMinutes + plan.relaxMinutes)
                    * SecondsPerMinute
  /\ timerState.status = "ready"
  /\ lastOp = "tick"

\* the tick that ends a relax phase with cycles left after the decrement
RelaxEndsWithCyclesLeft ==
  /\ timerState.status = "running"
  /\ timerState.phase = "relax"
  /\ JsLe(timerState.remainingSeconds, 1)
  /\ JsGt(JsSub(timerState.cyclesLeft, 1), 0)
  /\ Tick

\* C9: when a relax phase completes with cyclesLeft > 0 after the decrement
\* and autoCycle is on, the same tick leaves the timer running in phase
\* focus with remainingSeconds = durationSeconds = focusMinutes * 60 and a
\* ticker armed (no Waiting or Paused state between).
C9_AutoCycleStartsNextFocus ==
  [][RelaxEndsWithCyclesLeft /\ preferences.autoCycle =>
       /\ timerState'.status = "running"
       /\ timerState'.phase = "focus"
       /\ timerState'.isRunning
       /\ JsEq(timerState'.remainingSeconds, FocusSeconds)
       /\ JsEq(timerState'.durationSeconds, FocusSeconds)
       /\ JsEq(timerState'.cyclesLeft, timerState.cyclesLeft - 1)
       /\ tickerId' # Null
       /\ liveIntervals' = {tickerId'}]_vars

\* a focus phase started by a tick: the next cycle, auto-cycled
C9_Witness ==
  /\ lastOp = "tick"
  /\ timerState.status = "running"
  /\ timerState.phase = "focus"
  /\ JsEq(timerState.remainingSeconds, FocusSeconds)
  /\ JsEq(timerState.cyclesLeft + 1, timerState.totalCycles)

\* C10: when a relax phase that is not the last completes and autoCycle is
\* off, the timer enters Waiting with phase focus,
\* remainingSeconds = durationSeconds = focusMinutes * 60, cyclesLeft one
\* less and no ticker armed; performPrimaryAction in Waiting then yields
\* running, focus, remainingSeconds = focusMinutes * 60, cyclesLeft unchanged.
C10_WaitingThenContinue ==
  [][/\ RelaxEndsWithCyclesLeft /\ ~preferences.autoCycle =>
          /\ timerState'.status = "waiting"
          /\ timerState'.phase = "focus"
          /\ ~timerState'.isRunning
          /\ JsEq(timerState'.remainingSeconds, FocusSeconds)
          /\ JsEq(timerState'.durationSeconds, FocusSeconds)
          /\ JsEq(timerState'.cyclesLeft, timerState.cyclesLeft - 1)
          /\ tickerId' = Null
          /\ liveIntervals' = {}
     /\ timerState.status = "waiting" /\ PerformPrimaryAction =>
          /\ timerState'.status = "running"
          /\ timerState'.phase = "focus"
          /\ timerState'.isRunning
          /\ JsEq(timerState'.remainingSeconds, FocusSeconds)
          /\ JsEq(timerState'.cyclesLeft, timerState.cyclesLeft)
          /\ tickerId' # Null]_vars

\* the continue intent given in Waiting
C10_Witness ==
  /\ lastOp = "continue"
  /\ timerState.status = "running"
  /\ timerState.phase = "focus"
  /\ JsEq(timerState.remainingSeconds, FocusSeconds)
  /\ JsEq(timerState.cyclesLeft + 1, timerState.totalCycles)

---------------------------------------------------------------------------
(* Shorthands of the claims on snapshots *)

\* P holds of the snapshots an observer can hold after an operation: what
\* getTimerState returns now, and what the operation emitted
EverySnapshot(P(_)) ==
  /\ P(getTimerState(timerState, plan))
  /\ \A i \in 1 .. Len(emitted) : P(emitted[i])

IntentOps == {"start", "pause", "resume", "continue", "reset", "applyPlan"}

\* the state a (re)initialization from plan p leaves
FreshFor(ts, p) ==
  /\ ts.status = "ready"
  /\ ts.phase = "focus"
  /\ JsEq(ts.remainingSeconds, JsMul(p.focusMinutes, SecondsPerMinute))
  /\ JsEq(ts.durationSeconds, JsMul(p.focusMinutes, SecondsPerMinute))
  /\ JsEq(ts.cyclesLeft, p.cycles)
  /\ JsEq(ts.totalCycles, p.cycles)
  /\ ts.isRunning = FALSE

\* the fields a pause and a resume leave as they are
KeptAcrossPause ==
  /\ timerState'.remainingSeconds = timerState.remainingSeconds
  /\ timerState'.phase = timerState.phase
  /\ timerState'.durationSeconds = timerState.durationSeconds
  /\ timerState'.cyclesLeft = timerState.cyclesLeft

---------------------------------------------------------------------------
\* C11: pausing a running timer leaves remainingSeconds, phase,
\* durationSeconds and cyclesLeft as they are and disarms the ticker; while
\* paused no tick fires and nothing changes them; resuming returns to running
\* and leaves them as they are: pause then resume restores Running with the
\* four values of before the pause.
C11_PauseResumePreserves ==
  [][/\ timerState.status = "running" /\ PerformPrimaryAction =>
          /\ timerState'.status = "paused"
          /\ KeptAcrossPause
          /\ liveIntervals' = {}
     /\ timerState.status = "paused" =>
          /\ liveIntervals = {}
          /\ ~Tick
          /\ timerState'.status = "paused" => KeptAcrossPause
     /\ timerState.status = "paused" /\ PerformPrimaryAction =>
          /\ timerState'.status = "running"
          /\ timerState'.isRunning
          /\ KeptAcrossPause]_vars

\* a phase resumed part-way through
C11_Witness ==
  /\ lastOp = "resume"
  /\ lastFrom.status = "paused"
  /\ timerState.status = "running"
  /\ IsNum(timerState.remainingSeconds)
  /\ timerState.remainingSeconds < timerState.durationSeconds

\* C12: resetTimer, in whatever status and phase it is called, leaves the
\* freshly initialized state of the current plan with the ticker disarmed;
\* after it no tick can fire, and TimerState and the emissions change again
\* only with the next start (or an apply-plan).
C12_ResetYieldsFreshState ==
  [][/\ ResetTimer =>
          /\ FreshFor(timerState', plan)
          /\ tickerId' = Null
          /\ liveIntervals' = {}
     /\ lastOp = "reset" =>
          /\ liveIntervals = {}
          /\ ~Tick
          /\ timerState' # timerState \/ emitted' # emitted =>
               PerformPrimaryAction \/ ApplyPlanClick]_vars

\* reset of a paused relax phase
C12_Witness ==
  /\ lastOp = "reset"
  /\ lastFrom = [status |-> "paused", phase |-> "relax"]
  /\ timerState.status = "ready"
  /\ liveIntervals = {}

\* a step of the Apply button: the step that leaves lastOp = "applyPlan" (a
\* preference change leaves lastOp as it was, and changes the preferences)
AppliedPlan == lastOp' = "applyPlan" /\ preferences' = preferences

\* C13: the Apply button, in whatever status, leaves the timer Ready in
\* phase focus with remaining, duration, cyclesLeft and totalCycles of the new
\* plan and the ticker disarmed, and emits one update, without a message.
C13_ApplyPlanDiscardsSession ==
  [][AppliedPlan =>
       /\ FreshFor(timerState', plan')
       /\ tickerId' = Null
       /\ liveIntervals' = {}
       /\ Len(emitted') = 1
       /\ emitted'[1].message = NoMessage
       /\ StateOf(emitted'[1]) = timerState']_vars

\* a plan applied over a running relax phase
C13_Witness ==
  /\ lastOp = "applyPlan"
  /\ lastFrom = [status |-> "running", phase |-> "relax"]
  /\ timerState.status = "ready"
  /\ Len(emitted) = 1

TotalRemaining == calculateTotalRemaining(timerState, plan)

\* a tick of a running timer, seen through totalRemainingSeconds: one less
\* when no phase ends, less when a phase or cycle ends, never more
TotalRemainingStep ==
  timerState.status = "running" /\ Tick =>
    /\ timerState'.status = "running" /\ timerState'.phase = timerState.phase
         => JsEq(TotalRemaining', JsSub(TotalRemaining, 1))
    /\ timerState'.status \in {"running", "waiting"}
         => JsGt(TotalRemaining, TotalRemaining')
    /\ ~JsGt(TotalRemaining', TotalRemaining)

\* C14: while the timer runs with an unchanged plan, totalRemainingSeconds
\* decreases by exactly 1 on a tick that ends no phase, drops on a tick that
\* ends a phase or cycle, and increases across no tick.
C14_TotalRemainingDecreases == [][TotalRemainingStep]_vars

\* C14 where the store holds a relaxMinutes and the tick does not finish the
\* plan: the statement as far as it holds
C14_WhereItHolds ==
  [][IsNum(plan.relaxMinutes) /\ timerState'.status # "ready"
       => TotalRemainingStep]_vars

\* the total the claim C15 names for a snapshot d
PairSeconds ==
  JsMul(JsAdd(plan.focusMinutes, plan.relaxMinutes), SecondsPerMinute)

TotalAsClaimed(d) ==
  LET rest == JsMul(JsMax(JsSub(d.cyclesLeft, 1), 0), PairSeconds)
  IN /\ d.status = "ready" =>
          d.totalRemainingSeconds = JsMul(d.cyclesLeft, PairSeconds)
     /\ d.phase = "focus" /\ d.status # "ready" =>
          d.totalRemainingSeconds =
            JsAdd(JsAdd(d.remainingSeconds, RelaxSeconds), rest)
     /\ d.phase = "relax" =>
          d.totalRemainingSeconds = JsAdd(d.remainingSeconds, rest)
     /\ d.status = "waiting" =>
          JsEq(d.totalRemainingSeconds, JsMul(d.cyclesLeft, PairSeconds))

\* C15: in every snapshot totalRemainingSeconds is, for the current plan,
\* cyclesLeft * (focus + relax) when ready, remaining + relax +
\* max(cyclesLeft - 1, 0) * (focus + relax) in phase focus when not ready,
\* remaining + max(cyclesLeft - 1, 0) * (focus + relax) in phase relax; in
\* Waiting it equals cyclesLeft * (focus + relax).
C15_TotalRemainingFormula == EverySnapshot(TotalAsClaimed)

\* Waiting, with the snapshot the completing tick emitted
C15_Witness ==
  /\ timerState.status = "waiting"
  /\ lastOp = "tick"
  /\ Len(emitted) = 2
  /\ emitted[2].status = "waiting"
  /\ JsGt(emitted[2].totalRemainingSeconds, 0)

PrimaryLabelAsClaimed(d) ==
  /\ d.primaryLabel = "Pause" <=> d.status = "running"
  /\ d.primaryLabel = "Resume" <=> d.status = "paused"
  /\ d.primaryLabel = "Continue" <=> d.status = "waiting"
  /\ d.primaryLabel = "Start" <=> d.status = "ready"

\* C16: in every snapshot primaryLabel is Pause iff running, Resume iff
\* paused, Continue iff waiting, Start iff ready; and performPrimaryAction
\* does what the caption says: Pause leads to Paused, the others to Running.
C16_PrimaryLabelNamesNextAction ==
  /\ []EverySnapshot(PrimaryLabelAsClaimed)
  /\ [][PerformPrimaryAction =>
          IF derivePrimaryLabel(timerState) = "Pause"
            THEN timerState'.status = "paused"
            ELSE timerState'.status = "running"]_vars

\* Continue pressed: the caption was Continue, the timer runs
C16_Witness ==
  /\ lastOp = "continue"
  /\ lastFrom.status = "waiting"
  /\ timerState.status = "running"
  /\ Len(emitted) = 1
  /\ emitted[1].primaryLabel = "Pause"

LabelAndToneAsClaimed(d) ==
  /\ d.status = "ready" => d.statusLabel = "Ready" /\ d.tone = "ready"
  /\ d.status = "waiting" => d.statusLabel = "Waiting" /\ d.tone = "waiting"
  /\ d.status = "paused" => d.statusLabel = "Paused" /\ d.tone = "paused"
  /\ d.status = "running" /\ d.phase = "focus" =>
       d.statusLabel = "Focus" /\ d.tone = "focus"
  /\ d.status = "running" /\ d.phase = "relax" =>
       d.statusLabel = "Relax" /\ d.tone = "relax"

\* C17: in every snapshot statusLabel and tone follow from status and phase:
\* Ready/ready, Waiting/waiting, Paused/paused whatever the phase, and for
\* running Focus/focus or Relax/relax by phase.
C17_StatusLabelAndTone == EverySnapshot(LabelAndToneAsClaimed)

\* a relax phase paused: Paused/paused although the phase is relax
C17_Witness ==
  /\ lastOp = "pause"
  /\ timerState.phase = "relax"
  /\ Len(emitted) = 1
  /\ emitted[1].statusLabel = "Paused"
  /\ emitted[1].tone = "paused"
  /\ emitted[1].phase = "relax"

\* C18: performPrimaryAction, resetTimer and applyPlanSettings each dispatch
\* at most one timer:update, and it carries the state as the call left it.
C18_OneEmissionPerIntent ==
  lastOp \in IntentOps =>
    /\ Len(emitted) <= 1
    /\ \A i \in 1 .. Len(emitted) :
         emitted[i] = Detail(timerState, plan, emitted[i].message)

\* a reset over a session under way, with its one emission
C18_Witness ==
  /\ lastOp = "reset"
  /\ lastFrom.status = "waiting"
  /\ Len(emitted) = 1
  /\ emitted[1].message = <<"Timer reset">>

\* the outcome of a handler equals the outcome c of the same handler run
\* with audio elements that play
SameOutcome(c) ==
  /\ timerState' = c.ts
  /\ tickerId' = c.tickerId
  /\ liveIntervals' = c.live
  /\ ~threw'

\* C19: when a call of the audio sink fails during an intent or a tick, the
\* transition completes as it does with a sink that succeeds (same
\* TimerState, same ticker) and no exception leaves the handler.
C19_SinkFailureContained ==
  [][\A sink \in SinkOutcomes :
       /\ PerformPrimaryActionWith(sink) =>
            SameOutcome(performPrimaryAction(Core, plan))
       /\ TickWith(sink) =>
            SameOutcome(handleTick(Core, plan, preferences))]_vars

\* C19 for a playback error reported through the promise play() returns
C19_WhereOnlyThePromiseRejects ==
  [][/\ PerformPrimaryActionWith("rejects") =>
          SameOutcome(performPrimaryAction(Core, plan))
     /\ TickWith("rejects") =>
          SameOutcome(handleTick(Core, plan, preferences))]_vars

PositiveInteger(x) == x \in Nat /\ x >= 1

\* C20: the plan of the store, the default plan included, has focusMinutes,
\* relaxMinutes and cycles positive integers, so focusMinutes * 60 and
\* relaxMinutes * 60 are positive integers.
C20_PlanSuppliesPositiveIntegers ==
  /\ PositiveInteger(plan.focusMinutes)
  /\ PositiveInteger(plan.relaxMinutes)
  /\ PositiveInteger(plan.cycles)
  /\ PositiveInteger(FocusSeconds)
  /\ PositiveInteger(RelaxSeconds)

\* C21: starting from Ready and continuing from Waiting reset both
\* remainingSeconds and durationSeconds from the plan as it is at the time of
\* the intent: right afterwards remainingSeconds = durationSeconds =
\* plan.focusMinutes * 60.
C21_StartResetsFromCurrentPlan ==
  [][/\ timerState.status \in {"ready", "waiting"}
     /\ PerformPrimaryAction
     => /\ JsEq(timerState'.durationSeconds, FocusSeconds)
        /\ JsEq(timerState'.remainingSeconds, FocusSeconds)]_vars

\* C22: a tick with remainingSeconds > 1 decrements it by one and emits
\* exactly one update, without a message; a tick whose decrement reaches 0
\* runs the phase completion instead of a plain update, so that tick too
\* emits exactly once, and no snapshot with status running and
\* remainingSeconds 0 is ever emitted.
C22_OneEmissionPerTick ==
  [][Tick =>
       /\ Len(emitted') = 1
       /\ \A i \in 1 .. Len(emitted') :
            ~(emitted'[i].status = "running"
              /\ emitted'[i].remainingSeconds = 0)
       /\ JsGt(timerState.remainingSeconds, 1) =>
            /\ timerState'.remainingSeconds = timerState.remainingSeconds - 1
            /\ emitted'[1].message = NoMessage]_vars

\* C22 for the ticks that leave remainingSeconds above 0
C22_WhereTheTickDoesNotComplete ==
  [][JsGt(timerState.remainingSeconds, 1) /\ Tick =>
       /\ timerState'.remainingSeconds = timerState.remainingSeconds - 1
       /\ Len(emitted') = 1
       /\ emitted'[1] = Detail(timerState', plan, NoMessage)]_vars

\* the step is a tick callback / a press of the primary button
Ticked == lastOp' = "tick" /\ preferences' = preferences /\ plan' = plan

Pressed ==
  /\ lastOp' \in {"start", "pause", "resume", "continue"}
  /\ preferences' = preferences
  /\ plan' = plan

\* the tick at hand ends a relax phase
RelaxCompletes ==
  /\ timerState.status = "running"
  /\ timerState.phase = "relax"
  /\ JsLe(timerState.remainingSeconds, 1)

CyclesKept ==
  /\ timerState'.cyclesLeft = timerState.cyclesLeft
  /\ timerState'.totalCycles = timerState.totalCycles

\* C23: cyclesLeft changes in two ways only: down by exactly one when a relax
\* phase completes, and to plan.cycles on a (re)initialization (reset, apply
\* plan, plan finished), which alone sets totalCycles; start, continue, pause,
\* resume, a tick that completes nothing and the completion of a focus phase
\* leave cyclesLeft and totalCycles as they are.
C23_CyclesLeftFrame ==
  [][/\ Pressed => CyclesKept
     /\ Ticked /\ ~RelaxCompletes => CyclesKept
     /\ Ticked /\ RelaxCompletes =>
          IF JsGt(timerState.cyclesLeft, 1)
            THEN /\ timerState'.cyclesLeft = timerState.cyclesLeft - 1
                 /\ timerState'.totalCycles = timerState.totalCycles
            ELSE /\ timerState'.status = "ready"
                 /\ JsEq(timerState'.cyclesLeft, plan.cycles)
                 /\ JsEq(timerState'.totalCycles, plan.cycles)
     /\ ~CyclesKept =>
          \/ Ticked /\ RelaxCompletes
          \/ /\ lastOp' \in {"reset", "applyPlan"}
             /\ JsEq(timerState'.cyclesLeft, plan'.cycles)
             /\ JsEq(timerState'.totalCycles, plan'.cycles)]_vars

\* the first of two relax phases has completed under autoCycle: one cycle
\* fewer is left, of as many in total
C23_Witness ==
  /\ lastOp = "tick"
  /\ lastFrom.phase = "relax"
  /\ timerState.status = "running"
  /\ timerState.cyclesLeft = 1
  /\ timerState.totalCycles = 2

\* C24: durationSeconds is fixed for the length of a phase: a tick that does
\* not end the phase, a pause and a resume leave it as it is, even when the
\* plan store was changed meanwhile, and so does the change of the store
\* itself; it changes only at a phase start, at the entry to Waiting and at
\* a (re)initialization.
C24_DurationFixedWithinPhase ==
  [][/\ lastOp' \in {"pause", "resume"} =>
          timerState'.durationSeconds = timerState.durationSeconds
     /\ lastOp' = "tick" /\ ~PhaseCompletes =>
          timerState'.durationSeconds = timerState.durationSeconds
     /\ plan' # plan /\ lastOp' # "applyPlan" =>
          timerState'.durationSeconds = timerState.durationSeconds
     /\ timerState'.durationSeconds # timerState.durationSeconds =>
          \/ /\ lastOp' \in {"start", "continue"}
             /\ timerState'.status = "running"
             /\ JsEq(timerState'.durationSeconds, FocusSeconds)
          \/ /\ lastOp' = "tick"
             /\ PhaseCompletes
             /\ \/ timerState'.status = "running"
                   /\ timerState'.phase # timerState.phase
                \/ timerState'.status \in {"waiting", "ready"}
          \/ /\ lastOp' \in {"reset", "applyPlan"}
             /\ timerState'.status = "ready"]_vars

\* a phase resumed after the store was given another focusMinutes: the
\* duration is still the one the phase started with
C24_Witness ==
  /\ lastOp = "resume"
  /\ timerState.phase = "focus"
  /\ IsNum(timerState.durationSeconds)
  /\ timerState.durationSeconds # FocusSeconds

\* C25: TimerState changes only in an intent call or a tick callback, and a
\* tick fires only while running: while Ready, Paused or Waiting no ticker is
\* armed and no tick fires, neither a change of the preferences nor an update
\* of the plan store alters a field of TimerState, and these states are left
\* only through performPrimaryAction, resetTimer or applyPlanSettings.
C25_OnlyIntentsAndTicksChangeState ==
  /\ [](timerState.status # "running" => ~TickerArmed)
  /\ [][/\ timerState.status # "running" => ~Tick
        /\ plan' # plan \/ preferences' # preferences =>
             timerState' = timerState
        /\ timerState' # timerState =>
             PerformPrimaryAction \/ ResetTimer \/ ApplyPlanSettings \/ Tick
        /\ timerState.status # "running"
             /\ timerState'.status # timerState.status =>
             PerformPrimaryAction \/ ResetTimer \/ ApplyPlanSettings]_vars

\* the store was given another focusMinutes while the timer was Ready after
\* a reset, and the state is as the reset left it
C25_Witness ==
  /\ lastOp = "reset"
  /\ timerState.status = "ready"
  /\ Len(emitted) = 1
  /\ StateOf(emitted[1]) = timerState
  /\ IsNum(FocusSeconds)
  /\ timerState.durationSeconds # FocusSeconds

\* C26: the audio cues never affect the timer: two runs given the same
\* intents, ticks, plans and autoCycle values that differ only in the sound
\* preference go through the same TimerState values, arm the same tickers
\* and emit the same snapshots.
C26_SoundDoesNotSteerTheTimer ==
  /\ twin.ts = timerState
  /\ twin.out = emitted
  /\ twin.tickerId = tickerId
  /\ twin.live = liveIntervals

\* both runs are in the same second of a relax phase, the first with its
\* ambient loop playing, the second with sound off and silent
C26_Witness ==
  /\ lastOp = "tick"
  /\ timerState.status = "running"
  /\ timerState.phase = "relax"
  /\ timerState.remainingSeconds < timerState.durationSeconds
  /\ preferences.sound
  /\ ~twin.sound
  /\ relaxAmbientPlaying
  /\ ~twin.ambient

\* remainingSeconds as the tick at hand decrements it
Decremented == JsSub(timerState.remainingSeconds, 1)

\* C27: a tick calls playCountdownSound exactly when, after the decrement,
\* status is running and remainingSeconds is 1, 2 or 3; the tick that reaches
\* 0 does not call it, and the phase completion stops the countdown clip; a
\* phase that runs to its end has had the cue exactly three times.
C27_WarningCueInLastThreeSeconds ==
  [][Ticked =>
       /\ cued' = IF /\ timerState.status = "running"
                     /\ JsGt(Decremented, 0)
                     /\ JsLe(Decremented, 3)
                   THEN 1 ELSE 0
       /\ PhaseCompletes =>
            /\ cued' = 0
            /\ ~countdownStarted'
            /\ cuesInPhase = 3
            /\ cuesInPhase' = 0]_vars

\* the tick that left one second of a focus phase: the third cue of the phase
C27_Witness ==
  /\ lastOp = "tick"
  /\ timerState.status = "running"
  /\ timerState.phase = "focus"
  /\ timerState.remainingSeconds = 1
  /\ cued = 1
  /\ cuesInPhase = 3
  /\ countdownStarted

\* C28: the relax ambient loop plays only while status is running, the phase
\* is relax and sound is enabled: a pause, a focus start, the entry to
\* Waiting, the end of the plan, a reset, an apply-plan and switching sound
\* off each leave it stopped, and only the start of a relax phase and the
\* resume of a paused relax phase start it.
C28_AmbientOnlyInRunningRelax ==
  /\ [](relaxAmbientPlaying =>
          /\ timerState.status = "running"
          /\ timerState.phase = "relax"
          /\ preferences.sound)
  /\ [][/\ lastOp' \in {"pause", "start", "continue", "reset", "applyPlan"}
             => ~relaxAmbientPlaying'
        /\ timerState'.status \in {"waiting", "ready"}
             => ~relaxAmbientPlaying'
        /\ timerState'.phase = "focus" => ~relaxAmbientPlaying'
        /\ ~preferences'.sound => ~relaxAmbientPlaying'
        /\ ~relaxAmbientPlaying /\ relaxAmbientPlaying' =>
             \/ /\ Ticked
                /\ PhaseCompletes
                /\ timerState.phase = "focus"
                /\ timerState'.phase = "relax"
             \/ /\ lastOp' = "resume"
                /\ timerState.status = "paused"
                /\ timerState.phase = "relax"]_vars

\* a paused relax phase resumed with sound on: its loop plays again
C28_Witness ==
  /\ lastOp = "resume"
  /\ timerState.status = "running"
  /\ timerState.phase = "relax"
  /\ relaxAmbientPlaying

\* the store holds a plan whose three fields are positive integers
ValidPlan ==
  /\ PositiveInteger(plan.focusMinutes)
  /\ PositiveInteger(plan.relaxMinutes)
  /\ PositiveInteger(plan.cycles)

\* C29: while the store holds a valid plan that changes only together with
\* applyPlanSettings, remainingSeconds >= 1 in every state between
\* operations; handleTick never finds remainingSeconds already at 0, and no
\* pause or resume leaves a timer at 0.
C29_RemainingAtLeastOne ==
  /\ [](ValidPlan => JsLe(1, timerState.remainingSeconds))
  /\ [][/\ Ticked => ~JsLe(timerState.remainingSeconds, 0)
        /\ Pressed /\ lastOp' \in {"pause", "resume"} =>
             /\ timerState.remainingSeconds # 0
             /\ timerState'.remainingSeconds # 0]_vars

\* a focus phase paused in its last second, under a valid plan
C29_Witness ==
  /\ ValidPlan
  /\ lastOp = "pause"
  /\ timerState.status = "paused"
  /\ timerState.remainingSeconds = 1

HasCyclesLeft(d) == JsLe(1, d.cyclesLeft)

\* C30: while the plan has cycles >= 1, no state between operations and no
\* emitted snapshot has cyclesLeft = 0: the tick that counts the last cycle
\* down re-initializes cyclesLeft from the plan before it emits.
C30_CyclesLeftNeverZero ==
  plan.cycles >= 1 => EverySnapshot(HasCyclesLeft)

\* the tick that ended the last relax phase: the plain update still shows one
\* cycle left, the Plan finished event shows the plan's cycles again
C30_Witness ==
  /\ lastOp = "tick"
  /\ lastFrom = [status |-> "running", phase |-> "relax"]
  /\ timerState.status = "ready"
  /\ Len(emitted) = 2
  /\ emitted[1].cyclesLeft = 1
  /\ emitted[2].message = <<"Plan finished. Good job!">>
  /\ emitted[2].cyclesLeft = plan.cycles

\* C31: when the ticker keeps firing and no intent comes after the start, the
\* timer does not stay running for ever. handleTick computes the next timer
\* state from the timer state, the plan and the preferences alone, so a tick
\* that leaves a running timer exactly as it was is repeated by every later
\* tick: the claim requires that no tick of a running timer does so.
C31_EveryTickAdvances ==
  [][(timerState.status = "running" /\ Ticked)
       => timerState' # timerState]_vars

\* C31 where the phase has a numeric remaining time: a tick ends the running
\* session, or ends the phase, or leaves one second less in it
C31_WhereRemainingIsNumeric ==
  [][(/\ timerState.status = "running"
      /\ IsNum(timerState.remainingSeconds)
      /\ Ticked)
       => \/ timerState'.status \in {"ready", "waiting"}
          \/ /\ timerState'.phase # timerState.phase
             /\ timerState'.status = "running"
             /\ \/ timerState.phase = "focus"
                \/ timerState'.cyclesLeft = timerState.cyclesLeft - 1
          \/ /\ timerState' = [timerState EXCEPT
                                 !.remainingSeconds = @ - 1]
             /\ timerState'.remainingSeconds >= 1]_vars

\* the core a following call finds: what the call left, its event dispatched
Afterwards(c) == [c EXCEPT !.out = <<>>]

SameTimerAndTicker(a, b) ==
  /\ a.ts = b.ts
  /\ a.tickerId = b.tickerId
  /\ a.live = b.live

ResetAndApplyAgree ==
  LET r == resetTimer(Core, plan)
      a == applyPlanSettings(Core, plan)
  IN /\ SameTimerAndTicker(r, a)
     /\ Len(r.out) = 1 /\ Len(a.out) = 1
     /\ StateOf(r.out[1]) = StateOf(a.out[1])
     /\ r.out[1].message = <<"Timer reset">>
     /\ a.out[1].message = NoMessage
     /\ SameTimerAndTicker(resetTimer(Afterwards(r), plan), r)
     /\ SameTimerAndTicker(applyPlanSettings(Afterwards(a), plan), a)
     /\ FreshFor(timerState, plan) => r.ts = timerState /\ a.ts = timerState

\* C32: from every state resetTimer and applyPlanSettings leave the same
\* timer state and ticker and differ only in the message of the event they
\* emit; either one called again changes nothing more; called in Ready freshly
\* initialized from the plan in the store they leave the timer state as it is.
\* A reset pressed right after a reset or an apply is seen to change nothing.
C32_ResetAndApplyIdempotent ==
  /\ []ResetAndApplyAgree
  /\ [][(/\ lastOp \in {"reset", "applyPlan"}
         /\ lastOp' = "reset"
         /\ plan' = plan)
          => /\ timerState' = timerState
             /\ tickerId' = tickerId
             /\ liveIntervals' = liveIntervals]_vars

\* a reset pressed while a relax phase runs has left Ready with every cycle
\* of the plan ahead and no ticker
C32_Witness ==
  /\ lastOp = "reset"
  /\ lastFrom = [status |-> "running", phase |-> "relax"]
  /\ plan.cycles = MaxCycles
  /\ FreshFor(timerState, plan)
  /\ tickerId = Null
  /\ liveIntervals = {}
  /\ emitted = <<Detail(timerState, plan, <<"Timer reset">>)>>

\* relax phases ended since initializeFromPlan, as the cycle counters tell it;
\* a focus phase has ended once more than relax phases exactly while the
\* phase at hand is relax
CompletedAsCounted ==
  /\ completed.relax = timerState.totalCycles - timerState.cyclesLeft
  /\ completed.focus = completed.relax
                         + (IF timerState.phase = "relax" THEN 1 ELSE 0)

\* C33: since the last initializeFromPlan, totalCycles - cyclesLeft is the
\* number of relax phases that ran to their end, and focus and relax phases
\* end in turn, focus first: a focus phase ends with as many focus as relax
\* phases ended before it and relax follows; a relax phase ends with one more
\* focus than relax phases ended before it and focus follows.
C33_PhasesAlternate ==
  /\ []CompletedAsCounted
  /\ [][(PhaseCompletes /\ Ticked) =>
          IF timerState.phase = "focus"
            THEN /\ completed.focus = completed.relax
                 /\ completed'.focus = completed'.relax + 1
                 /\ timerState'.phase = "relax"
            ELSE /\ completed.focus = completed.relax + 1
                 /\ completed'.focus = completed'.relax
                 /\ timerState'.phase = "focus"]_vars

\* the relax phase of the second cycle is running: two focus phases and one
\* relax phase have ended
C33_Witness ==
  /\ completed = [focus |-> 2, relax |-> 1]
  /\ timerState.status = "running"
  /\ timerState.phase = "relax"
  /\ timerState.totalCycles = 2
  /\ timerState.cyclesLeft = 1
  /\ lastOp = "tick"
  /\ lastFrom = [status |-> "running", phase |-> "focus"]

\* within the limits of a picker
WithinLimits(field, v) ==
  /\ v \in Nat
  /\ pickerLimits[field].min <= v
  /\ v <= pickerLimits[field].max

\* C34: the pickers supply sane values: every plan the Apply button passes
\* to updatePlanSettings, after whatever step, input and blur events, has
\* focusMinutes, relaxMinutes and cycles that are integers within the
\* limits of their pickers.
C34_ApplyPassesSanePlan ==
  [][lastOp' = "applyPlan" /\ pickerEvents' = pickerEvents
       => \A field \in PickerFields : WithinLimits(field, plan'[field])]_vars

\* C34 for what the listeners do hold to: a value the input or the blur
\* listener stores is within the limits, saturated at them, and so is a
\* value the step control stores when the input's text spells a number
C34_WhereItHolds ==
  [][\A field \in PickerFields :
       pickerValues'[field] # pickerValues[field]
         => \/ WithinLimits(field, pickerValues'[field])
            \/ /\ pickerValues'[field] = NaN
               /\ parseInt(inputValue[field]) = NaN
               /\ inputValue'[field] = String(NaN)]_vars

====
